---------------------------- MODULE Spec2Model ----------------------------
(***************************************************************************)
(* A model of src-tauri/src/utils/memory_safe.rs: the secure allocator and *)
(* its process-wide registry (a Mutex<Vec<*mut u8>>), and the SecureString *)
(* / SecureBytes containers.                                               *)
(*                                                                         *)
(* Memory is a small array of blocks.  A pointer is a block number, Null   *)
(* is 0.  A size is the usize read as a signed word, so every size above   *)
(* isize::MAX is a negative number (usize::MAX is -1).                     *)
(***************************************************************************)
EXTENDS Integers, Sequences, FiniteSets, TLC

\* ---------------------------------------------------------------- bounds
NThreads == 2       \* concurrent callers
NAddr    == 2       \* blocks the system allocator can hand out
MaxSize  == 2       \* largest block, in bytes
MaxByte  == 1       \* byte values are 0..MaxByte
MaxReg   == 3       \* longest registry the direct register() calls build
MaxStale == 1       \* calls of deallocate with an already-freed handle
MaxCap   == 2       \* largest capacity of a container's buffer
MaxText  == 2       \* longest value given to a text rendering
MaxPad   == 1       \* longest text before or after a marker in an input
MaxPath  == 4       \* longest path in the exhaustive set of short paths
MaxStr   == 3       \* longest string in the exhaustive set for sanitize_string

Threads  == 1..NThreads
Addr     == 1..NAddr
Null     == 0
NoThread == 0
Byte     == 0..MaxByte
\* the sizes callers pass: usize::MAX (read as signed: -1) and 0..MaxSize
SizeArgs == (0 - 1)..MaxSize

VARIABLES
    th,         \* th[t]: the call caller t is in (pc, op, ptr, size, hres, res)
    heap,       \* heap[a]: the system allocator's view of block a
    mem,        \* mem[a][i]: the bytes of block a
    registry,   \* SECURE_MEMORY_REGISTRY's Vec<*mut u8>
    holder,     \* the thread holding the registry Mutex, or NoThread
    poisoned,   \* the Mutex's poison flag
    held,       \* held[t]: the handles allocate returned to t, not yet freed
    freed,      \* the addresses some deallocate has released
    crashed,    \* the process was aborted by the system allocator
    nstale,     \* the calls of deallocate made so far with a stale handle
    c,          \* one SecureString / SecureBytes and the code that owns it
    call,       \* the last call of a BoundaryValidator function or path command
    shown       \* shown[i]: the last text rendering of container i

allocVars == <<th, heap, mem, registry, holder, poisoned, held, freed, crashed,
               nstale>>
vars == <<allocVars, c, call, shown>>

\* ------------------------------------------------------- pure operators

\* Layout::from_size_align(size, align_of::<u8>()): fails iff size > isize::MAX
LayoutOk(size) == size >= 0

\* ptr::write_bytes(ptr, 0, n) on the bytes m of one block
ZeroBytes(m, n) == [i \in 1..MaxSize |-> IF i <= n THEN 0 ELSE m[i]]

AllZero(m, n) == \A i \in 1..n : m[i] = 0

\* registry.push(ptr)
Push(reg, p) == Append(reg, p)

\* a retain that stops at the first match (Vec::remove of one position)
RECURSIVE Retain_FirstOnly(_, _)
Retain_FirstOnly(reg, p) ==
    IF reg = <<>> THEN <<>>
    ELSE IF Head(reg) # p THEN <<Head(reg)>> \o Retain_FirstOnly(Tail(reg), p)
         ELSE Tail(reg)

\* registry.retain(|&q| q != ptr): keeps, in order, every entry other than ptr
RECURSIVE Retain(_, _)
Retain(reg, p) ==
    IF reg = <<>> THEN <<>>
    ELSE IF Head(reg) # p THEN <<Head(reg)>> \o Retain(Tail(reg), p)
         ELSE Retain(Tail(reg), p)

Elems(reg) == {reg[i] : i \in 1..Len(reg)}
Count(reg, p) == Cardinality({i \in 1..Len(reg) : reg[i] = p})

\* a caller's frame.  op, res, hres and arg stay readable after the call has
\* returned; arg, cont and wrote are history: what kind of handle the call
\* was given, whether the Mutex was held by another thread when the call
\* reached lock(), how many registry entries the call added or removed.
Frame(pc, op, ptr, size, hres, res, arg) ==
    [pc |-> pc, op |-> op, ptr |-> ptr, size |-> size, hres |-> hres,
     res |-> res, arg |-> arg, cont |-> FALSE, wrote |-> 0]

\* the caller's frame once a call has returned res
IdleFrame(op, res, hres, arg) == Frame("idle", op, Null, 0, hres, res, arg)

\* where a registry helper returns to
AfterHelper(op) ==
    CASE op = "allocate"   -> "a_after"
      [] op = "deallocate" -> "d_after"
      [] OTHER             -> "h_ret"

\* the frame a registry helper returns to with result hres: allocate and
\* deallocate still have their ptr, a direct caller gets the result only
HelperExit(f, hres) ==
    [f EXCEPT !.pc = AfterHelper(f.op), !.hres = hres,
              !.ptr = IF f.op \in {"allocate", "deallocate"} THEN @ ELSE Null]

\* ------------------------------------------ SecureString / SecureBytes

\* st: "none" (no container), "alive", "dropped" (its storage was released;
\* buf is then what the released storage still holds).  data is the first
\* len bytes of buf, the buffer has cap bytes.  pc is where the owning code
\* is, ret where clear() returns to, hsd the state of handle_sensitive_data.
\* nclear, len0 and dirty are history: the clears that have completed (2
\* stands for two or more), the length at construction, and whether the
\* spare capacity held a non-zero byte at construction.
NoContainer ==
    [st |-> "none", kind |-> "none", sensitive |-> FALSE, len |-> 0, cap |-> 0,
     buf |-> <<>>, pc |-> "none", ret |-> "none", hsd |-> "none", out |-> 0,
     nclear |-> 0, len0 |-> 0, dirty |-> FALSE]

\* the buffers a String / Vec<u8> of at most MaxCap bytes can arrive in
Buffers == UNION {[1..n -> Byte] : n \in 0..MaxCap}

\* SecureString::new / new_non_sensitive, SecureBytes::new / new_non_sensitive
NewContainer(kind, sensitive, buf, len) ==
    [NoContainer EXCEPT !.st = "alive", !.kind = kind, !.sensitive = sensitive,
                        !.len = len, !.cap = Len(buf), !.buf = buf,
                        !.pc = "ready", !.len0 = len,
                        !.dirty = \E i \in (len + 1)..Len(buf) : buf[i] # 0]

\* len(), is_empty(), and the read views as_ref / as_bytes / to_string / to_vec
ContainerLen(k) == k.len
ContainerIsEmpty(k) == k.len = 0
ContainerView(k) == SubSeq(k.buf, 1, k.len)

\* ptr::write_bytes(self.data.as_mut_ptr(), 0, n) on a buffer
ZeroBuf(buf, n) == [i \in 1..Len(buf) |-> IF i <= n THEN 0 ELSE buf[i]]

\* a clear that zeroes the data only, not the spare capacity
ClearZero_LenOnly ==
    /\ c.pc = "clr_zero"
    /\ c' = [c EXCEPT !.buf = IF c.sensitive THEN ZeroBuf(@, c.len) ELSE @,
                      !.pc = "clr_trunc"]
    /\ UNCHANGED <<allocVars, call, shown>>

\* clear(), lines 78-87 and 152-161: a sensitive container's whole capacity
\* is overwritten with zero
ClearZero ==
    /\ c.pc = "clr_zero"
    /\ c' = [c EXCEPT !.buf = IF c.sensitive THEN ZeroBuf(@, c.cap) ELSE @,
                      !.pc = "clr_trunc"]
    /\ UNCHANGED <<allocVars, call, shown>>

\* a clear that resets the length of sensitive containers only
ClearTruncate_SensitiveOnly ==
    /\ c.pc = "clr_trunc"
    /\ c' = [c EXCEPT !.len = IF c.sensitive THEN 0 ELSE @,
                      !.nclear = IF @ < 2 THEN @ + 1 ELSE @,
                      !.pc = CASE c.ret = "drop" -> "free"
                               [] c.ret = "hsd"  -> "hsd_ret"
                               [] OTHER          -> "ready",
                      !.ret = "none"]
    /\ UNCHANGED <<allocVars, call, shown>>

\* clear(), lines 88 and 162: self.data.clear() resets the length, the
\* capacity stays
ClearTruncate ==
    /\ c.pc = "clr_trunc"
    /\ c' = [c EXCEPT !.len = 0,
                      !.nclear = IF @ < 2 THEN @ + 1 ELSE @,
                      !.pc = CASE c.ret = "drop" -> "free"
                               [] c.ret = "hsd"  -> "hsd_ret"
                               [] OTHER          -> "ready",
                      !.ret = "none"]
    /\ UNCHANGED <<allocVars, call, shown>>

\* the owner makes a container from a String or Vec<u8> it has
New(kind, sensitive, buf, len) ==
    /\ c.st = "none"
    /\ len <= Len(buf)
    /\ c' = NewContainer(kind, sensitive, buf, len)
    /\ UNCHANGED <<allocVars, call, shown>>

\* the owner calls clear()
ClearCall ==
    /\ c.st = "alive" /\ c.pc = "ready" /\ c.hsd = "none"
    /\ c' = [c EXCEPT !.pc = "clr_zero", !.ret = "ready"]
    /\ UNCHANGED <<allocVars, call, shown>>

\* the container goes out of scope: Drop::drop calls clear()
DropCall ==
    /\ c.st = "alive" /\ c.pc = "ready" /\ c.hsd = "none"
    /\ c' = [c EXCEPT !.pc = "clr_zero", !.ret = "drop"]
    /\ UNCHANGED <<allocVars, call, shown>>

\* after Drop::drop the String / Vec<u8> field is dropped: the buffer goes
\* back to the allocator as it is
Release ==
    /\ c.pc = "free"
    /\ c' = [c EXCEPT !.st = "dropped", !.pc = "none"]
    /\ UNCHANGED <<allocVars, call, shown>>

\* the owner goes on to its next container
Forget ==
    /\ c.st = "dropped"
    /\ c' = NoContainer
    /\ UNCHANGED <<allocVars, call, shown>>

\* DerefMut for SecureBytes: the owner writes a byte of the data
DerefMutWrite(i, b) ==
    /\ c.st = "alive" /\ c.pc = "ready" /\ c.hsd = "none"
    /\ c.kind = "SecureBytes"
    /\ i \in 1..c.len
    /\ c.buf[i] # b
    /\ c' = [c EXCEPT !.buf[i] = b]
    /\ UNCHANGED <<allocVars, call, shown>>

\* ------------------------------------------------------ BoundaryValidator

\* call is the call of a BoundaryValidator function or of
\* validate_and_process_path that has returned and whose result the caller
\* holds: the function, its input, the boolean and the string it returned.
NoCall == [fn |-> "none", input |-> <<>>, ok |-> FALSE, out |-> <<>>]

\* the caller is done with the result and goes on to its next call
Discard ==
    /\ call.fn # "none"
    /\ call' = NoCall
    /\ UNCHANGED <<allocVars, c, shown>>

\* A string is the sequence of its characters' code points.  Three letters
\* outside ASCII are kept, the ones whose Unicode case mapping lands on a
\* letter of a marker: the long s (U+017F, upper case S), the dotless i
\* (U+0131, upper case I) and the Kelvin sign (U+212A, lower case k).
LongS == 383
DotlessI == 305
KelvinSign == 8490

\* str::to_lowercase / str::to_uppercase, character by character
LowerChar(ch) ==
    IF ch >= 65 /\ ch <= 90 THEN ch + 32
    ELSE IF ch = KelvinSign THEN 107 ELSE ch
UpperChar(ch) ==
    IF ch >= 97 /\ ch <= 122 THEN ch - 32
    ELSE IF ch = LongS THEN 83
    ELSE IF ch = DotlessI THEN 73 ELSE ch
ToLowercase(str) == [i \in 1..Len(str) |-> LowerChar(str[i])]
ToUppercase(str) == [i \in 1..Len(str) |-> UpperChar(str[i])]

\* str::contains(pattern)
Contains(str, pat) ==
    \E i \in 0..(Len(str) - Len(pat)) : SubSeq(str, i + 1, i + Len(pat)) = pat

\* validate_string's injection_patterns, lines 308-311
InjectionPatterns == <<
    <<60, 115, 99, 114, 105, 112, 116>>,   \* <script
    <<106, 97, 118, 97, 115, 99, 114, 105, 112, 116, 58>>,   \* javascript:
    <<100, 97, 116, 97, 58, 116, 101, 120, 116, 47, 104, 116, 109, 108>>,   \* data:text/html
    <<118, 98, 115, 99, 114, 105, 112, 116, 58>>,   \* vbscript:
    <<111, 110, 108, 111, 97, 100, 61>>,   \* onload=
    <<111, 110, 101, 114, 114, 111, 114, 61>>,   \* onerror=
    <<111, 110, 99, 108, 105, 99, 107, 61>>,   \* onclick=
    <<111, 110, 109, 111, 117, 115, 101, 111, 118, 101, 114, 61>>    \* onmouseover=
    >>

\* validate_string's sql_patterns, lines 321-324
SqlPatterns == <<
    <<39, 32, 79, 82, 32>>,   \* ' OR 
    <<34, 32, 79, 82, 32>>,   \* " OR 
    <<39, 32, 79, 82, 32, 39, 49, 39, 61, 39, 49>>,   \* ' OR '1'='1
    <<34, 32, 79, 82, 32, 34, 49, 34, 61, 34, 49>>,   \* " OR "1"="1
    <<39, 59, 32, 68, 82, 79, 80, 32, 84, 65, 66, 76, 69>>,   \* '; DROP TABLE
    <<34, 59, 32, 68, 82, 79, 80, 32, 84, 65, 66, 76, 69>>,   \* "; DROP TABLE
    <<39, 59, 32, 83, 69, 76, 69, 67, 84, 32>>,   \* '; SELECT 
    <<39, 59, 32, 73, 78, 83, 69, 82, 84, 32>>    \* '; INSERT 
    >>

\* a validate_string whose SQL loop reuses the lowercased input against the
\* markers as they are listed
ValidateString_SqlLowercased(input) ==
    IF \E k \in 1..Len(InjectionPatterns) :
            Contains(ToLowercase(input), InjectionPatterns[k])
    THEN FALSE
    ELSE IF \E k \in 1..Len(SqlPatterns) :
                Contains(ToLowercase(input), SqlPatterns[k])
         THEN FALSE
         ELSE IF Contains(input, <<0>>) THEN FALSE ELSE TRUE

\* BoundaryValidator::validate_string, lines 306-340
ValidateString(input) ==
    IF \E k \in 1..Len(InjectionPatterns) :
            Contains(ToLowercase(input), InjectionPatterns[k])
    THEN FALSE
    ELSE IF \E k \in 1..Len(SqlPatterns) :
                Contains(ToUppercase(input), ToUppercase(SqlPatterns[k]))
         THEN FALSE
         ELSE IF Contains(input, <<0>>) THEN FALSE ELSE TRUE

\* the strings the repository's tests give validate_string and
\* sanitize_string
StringSamples == {
    <<60, 115, 99, 114, 105, 112, 116, 62, 97, 108, 101, 114, 116, 40, 49, 41, 60, 47, 115, 99, 114, 105, 112, 116, 62>>,   \* <script>alert(1)</script>
    <<106, 97, 118, 97, 115, 99, 114, 105, 112, 116, 58, 97, 108, 101, 114, 116, 40, 49, 41>>,   \* javascript:alert(1)
    <<39, 32, 79, 82, 32, 39, 49, 39, 61, 39, 49>>,   \* ' OR '1'='1
    <<39, 59, 32, 68, 82, 79, 80, 32, 84, 65, 66, 76, 69, 32, 117, 115, 101, 114, 115, 59, 32, 45, 45>>,   \* '; DROP TABLE users; --
    <<72, 101, 108, 108, 111, 44, 32, 119, 111, 114, 108, 100, 33>>,   \* Hello, world!
    <<49, 50, 51, 52, 53>>,   \* 12345
    <<117, 115, 101, 114, 64, 101, 120, 97, 109, 112, 108, 101, 46, 99, 111, 109>>,   \* user@example.com
    <<116, 101, 115, 116, 64, 101, 120, 97, 109, 112, 108, 101, 46, 99, 111, 109>>    \* test@example.com
    }

\* the text around a marker in an input: at most MaxPad characters
Pads == UNION {[1..n -> {97, 32}] : n \in 0..MaxPad}

\* ways to write a marker: as listed, in upper, lower and alternating ASCII
\* case, without its last character, and with a letter replaced by the
\* non-ASCII letter that case-maps to it
Subst(str, from, to) == [i \in 1..Len(str) |-> IF str[i] = from THEN to ELSE str[i]]
AsciiUpper(str) ==
    [i \in 1..Len(str) |-> IF str[i] >= 97 /\ str[i] <= 122 THEN str[i] - 32 ELSE str[i]]
AsciiLower(str) ==
    [i \in 1..Len(str) |-> IF str[i] >= 65 /\ str[i] <= 90 THEN str[i] + 32 ELSE str[i]]
AltCase(str) ==
    [i \in 1..Len(str) |-> IF i % 2 = 0 THEN AsciiUpper(str)[i] ELSE AsciiLower(str)[i]]
Spellings(m) ==
    {m, AsciiUpper(m), AsciiLower(m), AltCase(m), SubSeq(m, 1, Len(m) - 1),
     Subst(AsciiLower(m), 115, LongS), Subst(AsciiLower(m), 105, DotlessI),
     Subst(AsciiLower(m), 107, KelvinSign)}

\* the strings validate_string is called with
StringInputs ==
    StringSamples
    \cup {p \o <<0>> \o q : p \in Pads, q \in Pads}
    \cup {p \o w \o q : p \in Pads, q \in Pads,
            w \in UNION {Spellings(InjectionPatterns[k]) \cup Spellings(SqlPatterns[k]) :
                            k \in 1..Len(InjectionPatterns)}}

\* a call of BoundaryValidator::validate_string(input)
ValidateStringCall(input) ==
    /\ call.fn = "none"
    /\ call' = [fn |-> "validate_string", input |-> input,
                ok |-> ValidateString(input), out |-> <<>>]
    /\ UNCHANGED <<allocVars, c, shown>>

\* validate_path's traversal_patterns, lines 345-348:
\* "..", "~", "/etc/", "C:\Windows\", "/dev/", "/proc/", "/sys/",
\* "/var/log/", "/root/", "/home/"
TraversalPatterns == <<
    <<46, 46>>,
    <<126>>,
    <<47, 101, 116, 99, 47>>,
    <<67, 58, 92, 87, 105, 110, 100, 111, 119, 115, 92>>,
    <<47, 100, 101, 118, 47>>,
    <<47, 112, 114, 111, 99, 47>>,
    <<47, 115, 121, 115, 47>>,
    <<47, 118, 97, 114, 47, 108, 111, 103, 47>>,
    <<47, 114, 111, 111, 116, 47>>,
    <<47, 104, 111, 109, 101, 47>>
    >>

\* a validate_path that looks for the markers at the start of the path only
ValidatePath_StartsWith(path) ==
    ~\E k \in 1..Len(TraversalPatterns) :
        /\ Len(TraversalPatterns[k]) <= Len(path)
        /\ SubSeq(path, 1, Len(TraversalPatterns[k])) = TraversalPatterns[k]

\* BoundaryValidator::validate_path, lines 343-358
ValidatePath(path) ==
    ~\E k \in 1..Len(TraversalPatterns) : Contains(path, TraversalPatterns[k])

\* the paths the repository's tests give validate_path and sanitize_path:
\* ../../../etc/passwd, /etc/shadow, documents/myfile.txt, images/photo.jpg
PathSamples == {
    <<46, 46, 47, 46, 46, 47, 46, 46, 47, 101, 116, 99, 47, 112, 97, 115, 115, 119, 100>>,
    <<47, 101, 116, 99, 47, 115, 104, 97, 100, 111, 119>>,
    <<100, 111, 99, 117, 109, 101, 110, 116, 115, 47, 109, 121, 102, 105, 108, 101, 46, 116, 120, 116>>,
    <<105, 109, 97, 103, 101, 115, 47, 112, 104, 111, 116, 111, 46, 106, 112, 103>>
    }

\* every path of at most MaxPath characters over . ~ / \ and a letter
PathChars == {46, 126, 47, 92, 97}
ShortPaths == UNION {[1..n -> PathChars] : n \in 0..MaxPath}

\* ways to write a marker in a path: as listed, in upper and lower ASCII
\* case, without its first or its last character, and with backslashes for
\* its slashes
PathSpellings(m) ==
    {m, AsciiUpper(m), AsciiLower(m), SubSeq(m, 1, Len(m) - 1),
     SubSeq(m, 2, Len(m)), Subst(m, 47, 92)}

\* the paths validate_path, sanitize_path and validate_and_process_path
\* are called with
PathInputs ==
    PathSamples \cup ShortPaths
    \cup {p \o w \o q : p \in Pads, q \in Pads,
            w \in UNION {PathSpellings(TraversalPatterns[k]) :
                            k \in 1..Len(TraversalPatterns)}}

\* a call of BoundaryValidator::validate_path(path)
ValidatePathCall(path) ==
    /\ call.fn = "none"
    /\ call' = [fn |-> "validate_path", input |-> path,
                ok |-> ValidatePath(path), out |-> <<>>]
    /\ UNCHANGED <<allocVars, c, shown>>

\* str::replace(pat, to): every match of pat, found from left to right and
\* not overlapping an earlier match, becomes to
RECURSIVE Replace(_, _, _)
Replace(str, pat, to) ==
    IF Len(str) < Len(pat) THEN str
    ELSE IF SubSeq(str, 1, Len(pat)) = pat
         THEN to \o Replace(SubSeq(str, Len(pat) + 1, Len(str)), pat, to)
         ELSE <<Head(str)>> \o Replace(Tail(str), pat, to)

\* str::trim_start_matches(ch)
RECURSIVE TrimStartMatches(_, _)
TrimStartMatches(str, ch) ==
    IF str # <<>> /\ Head(str) = ch THEN TrimStartMatches(Tail(str), ch) ELSE str

\* BoundaryValidator::sanitize_path, lines 379-391
SanitizePath(path) ==
    TrimStartMatches(
        Replace(Replace(Replace(path, <<46, 46>>, <<>>), <<126>>, <<>>),
                <<92>>, <<47>>),
        47)

\* a call of BoundaryValidator::sanitize_path(path)
SanitizePathCall(path) ==
    /\ call.fn = "none"
    /\ call' = [fn |-> "sanitize_path", input |-> path, ok |-> TRUE,
                out |-> SanitizePath(path)]
    /\ UNCHANGED <<allocVars, c, shown>>

\* a sanitize_string that escapes the ampersand after the other characters
SanitizeString_AmpLast(input) ==
    LET r1 == Replace(input, <<60>>, <<38, 108, 116, 59>>)   \* < -> &lt;
        r2 == Replace(r1, <<62>>, <<38, 103, 116, 59>>)   \* > -> &gt;
        r3 == Replace(r2, <<34>>, <<38, 113, 117, 111, 116, 59>>)   \* " -> &quot;
        r4 == Replace(r3, <<39>>, <<38, 35, 51, 57, 59>>)   \* ' -> &#39;
        r5 == Replace(r4, <<38>>, <<38, 97, 109, 112, 59>>)   \* & -> &amp;
    IN  Replace(r5, <<0>>, <<>>)

\* BoundaryValidator::sanitize_string, lines 361-376: the replacements are
\* applied one after the other to the whole string, then null bytes go
SanitizeString(input) ==
    LET r1 == Replace(input, <<38>>, <<38, 97, 109, 112, 59>>)   \* & -> &amp;
        r2 == Replace(r1, <<60>>, <<38, 108, 116, 59>>)   \* < -> &lt;
        r3 == Replace(r2, <<62>>, <<38, 103, 116, 59>>)   \* > -> &gt;
        r4 == Replace(r3, <<34>>, <<38, 113, 117, 111, 116, 59>>)   \* " -> &quot;
        r5 == Replace(r4, <<39>>, <<38, 35, 51, 57, 59>>)   \* ' -> &#39;
    IN  Replace(r5, <<0>>, <<>>)

\* every string of at most MaxStr characters over & < > " ' NUL and a letter
EscapeChars == {38, 60, 62, 34, 39, 0, 97}
SanitizeInputs ==
    StringSamples \cup UNION {[1..n -> EscapeChars] : n \in 0..MaxStr}

\* a call of BoundaryValidator::sanitize_string(input)
SanitizeStringCall(input) ==
    /\ call.fn = "none"
    /\ call' = [fn |-> "sanitize_string", input |-> input, ok |-> TRUE,
                out |-> SanitizeString(input)]
    /\ UNCHANGED <<allocVars, c, shown>>

\* ------------------------------------------- validate_and_process_path

\* the two messages of validate_and_process_path, lines 419 and 426
InvalidPathMessage == <<73, 110, 118, 97, 108, 105, 100, 32, 112, 97, 116, 104, 32, 100, 101, 116, 101, 99, 116, 101, 100>>
ProcessedPathPrefix == <<80, 114, 111, 99, 101, 115, 115, 101, 100, 32, 112, 97, 116, 104, 58, 32>>

\* validate_and_process_path(path), lines 416-429: Err for a path that
\* validate_path rejects, else Ok with the sanitized path after the prefix
ValidateAndProcessPath(path) ==
    /\ call.fn = "none"
    /\ call' = IF ~ValidatePath(path)
               THEN [fn |-> "validate_and_process_path", input |-> path,
                     ok |-> FALSE, out |-> InvalidPathMessage]
               ELSE [fn |-> "validate_and_process_path", input |-> path,
                     ok |-> TRUE,
                     out |-> ProcessedPathPrefix \o SanitizePath(path)]
    /\ UNCHANGED <<allocVars, c, shown>>

\* ------------------------------------------------- handle_sensitive_data

\* the command is called with a String: SecureString::new(sensitive_input),
\* line 398
HandleSensitiveData(buf, len) ==
    /\ c.st = "none"
    /\ len <= Len(buf)
    /\ c' = [NewContainer("SecureString", TRUE, buf, len) EXCEPT
                !.pc = "hsd_validate", !.hsd = "run"]
    /\ UNCHANGED <<allocVars, call, shown>>

\* lines 401-406: an input that fails validation returns Err at once, and
\* secure_data is dropped on the way out; otherwise the result is formatted
\* from the length
HsdValidate ==
    /\ c.pc = "hsd_validate"
    /\ c' = IF ~ValidateString(ContainerView(c))
            THEN [c EXCEPT !.hsd = "Err", !.pc = "clr_zero", !.ret = "drop"]
            ELSE [c EXCEPT !.out = ContainerLen(c), !.pc = "hsd_clear"]
    /\ UNCHANGED <<allocVars, call, shown>>

\* line 409: secure_data.clear()
HsdClear ==
    /\ c.pc = "hsd_clear"
    /\ c' = [c EXCEPT !.pc = "clr_zero", !.ret = "hsd"]
    /\ UNCHANGED <<allocVars, call, shown>>

\* line 411: Ok(result); secure_data goes out of scope and is dropped
HsdReturn ==
    /\ c.pc = "hsd_ret"
    /\ c' = [c EXCEPT !.hsd = "Ok", !.pc = "clr_zero", !.ret = "drop"]
    /\ UNCHANGED <<allocVars, call, shown>>

\* ------------------------------------------------------- text renderings

\* A rendered text is the sequence of its character codes, as a string is.

\* the values rendered: texts over a letter and the double quote, byte
\* vectors over Byte
TextChars == {97, 34}
Texts == UNION {[1..n -> TextChars] : n \in 0..MaxText}
ByteVecs == UNION {[1..n -> Byte] : n \in 0..MaxText}

\* the two containers whose renderings are compared
Slots == {1, 2}

NoRendering ==
    [kind |-> "none", sensitive |-> FALSE, fmt |-> "none", data |-> <<>>,
     out |-> <<>>]

\* {} of an unsigned integer: its decimal digits
RECURSIVE Decimal(_)
Decimal(n) == IF n < 10 THEN <<48 + n>> ELSE Decimal(n \div 10) \o <<48 + (n % 10)>>

\* {:?} of a str: the text in double quotes, with " and \ escaped
RECURSIVE EscapeDebug(_)
EscapeDebug(str) ==
    IF str = <<>> THEN <<>>
    ELSE (IF Head(str) \in {34, 92} THEN <<92, Head(str)>> ELSE <<Head(str)>>)
            \o EscapeDebug(Tail(str))
DebugStr(str) == <<34>> \o EscapeDebug(str) \o <<34>>

\* {:?} of a bool
DebugBool(v) == IF v THEN <<116, 114, 117, 101>>          \* true
                     ELSE <<102, 97, 108, 115, 101>>      \* false

\* {:?} of a Vec<u8>: [1, 2, 3]
RECURSIVE DebugItems(_)
DebugItems(bytes) ==
    IF bytes = <<>> THEN <<>>
    ELSE IF Len(bytes) = 1 THEN Decimal(bytes[1])
         ELSE Decimal(Head(bytes)) \o <<44, 32>> \o DebugItems(Tail(bytes))
DebugVec(bytes) == <<91>> \o DebugItems(bytes) \o <<93>>

\* "***REDACTED***", line 101
RedactedMarker == <<42, 42, 42, 82, 69, 68, 65, 67, 84, 69, 68, 42, 42, 42>>

\* Display for SecureString, lines 98-106
DisplaySecureString(sensitive, data) ==
    IF sensitive THEN RedactedMarker ELSE data

\* Debug for SecureString is derived, line 35: every field is printed,
\* SecureString { data: "...", sensitive: true }
DebugSecureString(sensitive, data) ==
    <<83, 101, 99, 117, 114, 101, 83, 116, 114, 105, 110, 103>>   \* SecureString
        \o <<32, 123, 32, 100, 97, 116, 97, 58, 32>>              \*  { data: 
        \o DebugStr(data)
        \o <<44, 32, 115, 101, 110, 115, 105, 116, 105, 118, 101, 58, 32>>  \* , sensitive: 
        \o DebugBool(sensitive)
        \o <<32, 125>>                                            \*  }

\* Debug for SecureBytes, lines 182-190:
\* SecureBytes { data: [REDACTED], len: N } when sensitive, else
\* SecureBytes { data: [1, 2], len: N }
DebugSecureBytes(sensitive, data) ==
    <<83, 101, 99, 117, 114, 101, 66, 121, 116, 101, 115>>        \* SecureBytes
        \o <<32, 123, 32, 100, 97, 116, 97, 58, 32>>              \*  { data: 
        \o (IF sensitive
            THEN <<91, 82, 69, 68, 65, 67, 84, 69, 68, 93>>       \* [REDACTED]
            ELSE DebugVec(data))
        \o <<44, 32, 108, 101, 110, 58, 32>>                      \* , len: 
        \o Decimal(Len(data))
        \o <<32, 125>>                                            \*  }

\* format!("{}", s) of a SecureString made by new / new_non_sensitive
FmtDisplayString(i, sensitive, data) ==
    /\ shown' = [shown EXCEPT ![i] =
                [kind |-> "SecureString", sensitive |-> sensitive,
                 fmt |-> "Display", data |-> data,
                 out |-> DisplaySecureString(sensitive, data)]]
    /\ shown'[i] # shown[i]
    /\ UNCHANGED <<allocVars, c, call>>

\* format!("{:?}", s) of a SecureString
FmtDebugString(i, sensitive, data) ==
    /\ shown' = [shown EXCEPT ![i] =
                [kind |-> "SecureString", sensitive |-> sensitive,
                 fmt |-> "Debug", data |-> data,
                 out |-> DebugSecureString(sensitive, data)]]
    /\ shown'[i] # shown[i]
    /\ UNCHANGED <<allocVars, c, call>>

\* format!("{:?}", s) of a SecureBytes
FmtDebugBytes(i, sensitive, data) ==
    /\ shown' = [shown EXCEPT ![i] =
                [kind |-> "SecureBytes", sensitive |-> sensitive,
                 fmt |-> "Debug", data |-> data,
                 out |-> DebugSecureBytes(sensitive, data)]]
    /\ shown'[i] # shown[i]
    /\ UNCHANGED <<allocVars, c, call>>

\* ------------------------------------------------------------- initial

Init ==
    /\ th = [t \in Threads |-> IdleFrame("none", "none", "none", "none")]
    /\ heap = [a \in Addr |-> [live |-> FALSE, size |-> 0]]
    /\ mem = [a \in Addr |-> [i \in 1..MaxSize |-> 0]]
    /\ registry = <<>>
    /\ holder = NoThread
    /\ poisoned = FALSE
    /\ held = [t \in Threads |-> {}]
    /\ freed = {}
    /\ crashed = FALSE
    /\ nstale = 0
    /\ c = NoContainer
    /\ call = NoCall
    /\ shown = [i \in Slots |-> NoRendering]

\* ------------------------------------- register / deregister_secure_memory

\* a call arrives at SECURE_MEMORY_REGISTRY.lock()
AtLock(f) == [f EXCEPT !.pc = "h_lock", !.cont = (holder # NoThread)]

\* lock() replaced by try_lock(): a held Mutex is an error at once
HelperLock_TryLock(t) ==
    /\ th[t].pc = "h_lock"
    /\ IF poisoned \/ holder # NoThread
       THEN /\ th' = [th EXCEPT ![t] = HelperExit(th[t], "LockFailed")]
            /\ UNCHANGED holder
       ELSE /\ th' = [th EXCEPT ![t].pc = "h_crit"]
            /\ holder' = t
    /\ UNCHANGED <<heap, mem, registry, poisoned, held, freed, crashed, nstale, c, call, shown>>

\* SECURE_MEMORY_REGISTRY.lock(): waits while another thread holds the Mutex;
\* once it has it, fails iff the Mutex is poisoned (the guard is dropped with
\* the error)
HelperLock(t) ==
    /\ th[t].pc = "h_lock"
    /\ holder = NoThread
    /\ IF poisoned
       THEN /\ th' = [th EXCEPT ![t] = HelperExit(th[t], "LockFailed")]
            /\ UNCHANGED holder
       ELSE /\ th' = [th EXCEPT ![t].pc = "h_crit"]
            /\ holder' = t
    /\ UNCHANGED <<heap, mem, registry, poisoned, held, freed, crashed, nstale, c, call, shown>>

\* under the lock: registry.push(ptr) or registry.retain(..), then the guard
\* is dropped and the helper returns Ok(())
HelperCrit(t) ==
    /\ th[t].pc = "h_crit"
    /\ registry' = IF th[t].op \in {"allocate", "register"}
                   THEN Push(registry, th[t].ptr)
                   ELSE Retain(registry, th[t].ptr)
    /\ holder' = NoThread
    /\ th' = [th EXCEPT ![t] =
                [HelperExit(th[t], "Ok") EXCEPT
                    !.wrote = IF th[t].op \in {"allocate", "register"}
                              THEN 1 ELSE Count(registry, th[t].ptr)]]
    /\ UNCHANGED <<heap, mem, poisoned, held, freed, crashed, nstale, c, call, shown>>

\* a panic while the guard is held (the logger called by debug!, or the Vec
\* growing past its capacity limit): the guard's drop poisons the Mutex and
\* the thread unwinds out of the call (what it had allocated stays allocated)
HelperPanic(t) ==
    /\ th[t].pc = "h_crit"
    /\ poisoned' = TRUE
    /\ holder' = NoThread
    /\ th' = [th EXCEPT ![t] = Frame("panicked", "none", th[t].ptr, 0, "none",
                                     "none", "none")]
    /\ UNCHANGED <<heap, mem, registry, held, freed, crashed, nstale, c, call, shown>>

\* register_secure_memory(ptr) called directly, with any address
RegisterCall(t, p) ==
    /\ th[t].pc = "idle"
    /\ Len(registry)
         + Cardinality({u \in Threads : th[u].op = "register" /\ th[u].pc # "idle"})
         < MaxReg
    /\ th' = [th EXCEPT ![t] =
                AtLock(Frame("h_lock", "register", p, 0, "none", "none", "none"))]
    /\ UNCHANGED <<heap, mem, registry, holder, poisoned, held, freed, crashed, nstale, c, call, shown>>

\* deregister_secure_memory(ptr) called directly, with any address
DeregisterCall(t, p) ==
    /\ th[t].pc = "idle"
    /\ th' = [th EXCEPT ![t] =
                AtLock(Frame("h_lock", "deregister", p, 0, "none", "none", "none"))]
    /\ UNCHANGED <<heap, mem, registry, holder, poisoned, held, freed, crashed, nstale, c, call, shown>>

\* the helper's result reaches its direct caller
HelperReturn(t) ==
    /\ th[t].pc = "h_ret"
    /\ th' = [th EXCEPT ![t] = IdleFrame(th[t].op, th[t].hres, th[t].hres, "none")]
    /\ UNCHANGED <<heap, mem, registry, holder, poisoned, held, freed, crashed, nstale, c, call, shown>>

\* ------------------------------------------------- SecureAllocator::allocate

\* allocate(size), lines 248-250: the layout check
AllocateCall(t, sz) ==
    /\ th[t].pc = "idle"
    /\ th' = [th EXCEPT ![t] =
                IF LayoutOk(sz)
                THEN Frame("a_alloc", "allocate", Null, sz, "none", "none", "none")
                ELSE IdleFrame("allocate", "AllocationFailed", "none", "none")]
    /\ UNCHANGED <<heap, mem, registry, holder, poisoned, held, freed, crashed, nstale, c, call, shown>>

\* the bytes of a block as std::alloc::alloc hands it out: its first n bytes
\* are uninitialized, so they hold anything
Uninit(m, n) ==
    {f \in [1..MaxSize -> Byte] : \A i \in 1..MaxSize : i > n => f[i] = m[i]}

\* std::alloc::alloc(layout), lines 253-256: null, or a block that is free.
\* (A zero-size layout is outside alloc's contract; what the system allocators
\* do with it is return null or a block with no usable byte, as here.)
SysAlloc(t) ==
    /\ th[t].pc = "a_alloc"
    /\ \/ /\ th' = [th EXCEPT ![t] =
                      IdleFrame("allocate", "AllocationFailed", "none", "none")]
          /\ UNCHANGED <<heap, mem>>
       \/ \E a \in Addr :
            /\ ~heap[a].live
            /\ heap' = [heap EXCEPT ![a] = [live |-> TRUE, size |-> th[t].size]]
            /\ \E f \in Uninit(mem[a], th[t].size) : mem' = [mem EXCEPT ![a] = f]
            /\ th' = [th EXCEPT ![t].pc = "a_zero", ![t].ptr = a]
    /\ UNCHANGED <<registry, holder, poisoned, held, freed, crashed, nstale, c, call, shown>>

\* an allocate that zeroes one byte too few
AllocZero_SkipsLastByte(t) ==
    /\ th[t].pc = "a_zero"
    /\ mem' = [mem EXCEPT ![th[t].ptr] = ZeroBytes(@, th[t].size - 1)]
    /\ th' = [th EXCEPT ![t] = AtLock(th[t])]
    /\ UNCHANGED <<heap, registry, holder, poisoned, held, freed, crashed, nstale, c, call, shown>>

\* ptr::write_bytes(ptr, 0, size), line 259, then the call of
\* register_secure_memory(ptr)
AllocZero(t) ==
    /\ th[t].pc = "a_zero"
    /\ mem' = [mem EXCEPT ![th[t].ptr] = ZeroBytes(@, th[t].size)]
    /\ th' = [th EXCEPT ![t] = AtLock(th[t])]
    /\ UNCHANGED <<heap, registry, holder, poisoned, held, freed, crashed, nstale, c, call, shown>>

\* an allocate that returns the registration error without freeing the block
AllocFinish_Leaks(t) ==
    /\ th[t].pc = "a_after"
    /\ IF th[t].hres = "LockFailed"
       THEN /\ th' = [th EXCEPT ![t] =
                        IdleFrame("allocate", "LockFailed", "LockFailed", "none")]
            /\ UNCHANGED held
       ELSE /\ held' = [held EXCEPT ![t] = @ \cup {th[t].ptr}]
            /\ th' = [th EXCEPT ![t] = IdleFrame("allocate", "Ok", "Ok", "none")]
    /\ UNCHANGED <<heap, mem, registry, holder, poisoned, freed, crashed, nstale, c, call, shown>>

\* lines 262-269: free the block and fail if registration failed, else Ok(ptr)
AllocFinish(t) ==
    /\ th[t].pc = "a_after"
    /\ IF th[t].hres = "LockFailed"
       THEN /\ heap' = [heap EXCEPT ![th[t].ptr].live = FALSE]
            /\ th' = [th EXCEPT ![t] =
                        IdleFrame("allocate", "LockFailed", "LockFailed", "none")]
            /\ UNCHANGED held
       ELSE /\ held' = [held EXCEPT ![t] = @ \cup {th[t].ptr}]
            /\ th' = [th EXCEPT ![t] = IdleFrame("allocate", "Ok", "Ok", "none")]
            /\ UNCHANGED heap
    /\ UNCHANGED <<mem, registry, holder, poisoned, freed, crashed, nstale, c, call, shown>>

\* ----------------------------------------------- SecureAllocator::deallocate

\* deallocate(ptr, size), lines 275-280: the null check and the layout check
Deallocate(t, p, sz, kind) ==
    /\ th[t].pc = "idle"
    /\ th' = [th EXCEPT ![t] =
                IF p = Null
                THEN IdleFrame("deallocate", "InvalidAccess", "none", kind)
                ELSE IF ~LayoutOk(sz)
                     THEN IdleFrame("deallocate", "OperationFailed", "none", kind)
                     ELSE Frame("d_zero", "deallocate", p, sz, "none", "none", kind)]
    /\ UNCHANGED <<heap, mem, registry, holder, poisoned, held, freed, crashed, c, call, shown>>

\* a caller passes null (with any size), or a handle it holds with the size
\* it was allocated with or a size no layout accepts
DeallocateCall(t, p, sz) ==
    /\ p \in held[t] \cup {Null}
    /\ p # Null => sz \in {heap[p].size, 0 - 1}
    /\ Deallocate(t, p, sz, IF p = Null THEN "null" ELSE "live")
    /\ UNCHANGED nstale

\* a caller passes a handle that an earlier deallocate has already released
\* (the address may have been handed out again since)
DeallocateStaleCall(t, p, sz) ==
    /\ p \in freed \ held[t]
    /\ LayoutOk(sz)
    /\ nstale < MaxStale
    /\ nstale' = nstale + 1
    /\ Deallocate(t, p, sz, "freed")

\* a deallocate that goes to deregistration without zeroing
DeallocZero_NoZero(t) ==
    /\ th[t].pc = "d_zero"
    /\ th' = [th EXCEPT ![t] = AtLock(th[t])]
    /\ UNCHANGED <<heap, mem, registry, holder, poisoned, held, freed, crashed, nstale, c, call, shown>>

\* ptr::write_bytes(ptr, 0, size), line 284, then the call of
\* deregister_secure_memory(ptr)
DeallocZero(t) ==
    /\ th[t].pc = "d_zero"
    /\ mem' = [mem EXCEPT ![th[t].ptr] = ZeroBytes(@, th[t].size)]
    /\ th' = [th EXCEPT ![t] = AtLock(th[t])]
    /\ UNCHANGED <<heap, registry, holder, poisoned, held, freed, crashed, nstale, c, call, shown>>

\* a deallocate that hands the deregistration error to its caller
DeallocResult_Propagates(hres) == IF hres = "LockFailed" THEN "LockFailed" ELSE "Ok"

\* what deallocate returns once the block is released, lines 287-296: a
\* failed deregistration is logged and dropped
DeallocResult(hres) == "Ok"

\* std::alloc::dealloc(ptr, layout) and the return, lines 293-296
DeallocFinish(t) ==
    /\ th[t].pc = "d_after"
    /\ heap' = [heap EXCEPT ![th[t].ptr].live = FALSE]
    /\ held' = [u \in Threads |-> held[u] \ {th[t].ptr}]
    /\ freed' = freed \cup {th[t].ptr}
    /\ th' = [th EXCEPT ![t] =
                IdleFrame("deallocate", DeallocResult(th[t].hres), th[t].hres,
                          th[t].arg)]
    /\ UNCHANGED <<mem, registry, holder, poisoned, crashed, nstale, c, call, shown>>

\* std::alloc::dealloc of a block that is not allocated is undefined: the
\* system allocator may take the block back without noticing (DeallocFinish)
\* or abort the process
DeallocAbort(t) ==
    /\ th[t].pc = "d_after"
    /\ ~heap[th[t].ptr].live
    /\ crashed' = TRUE
    /\ UNCHANGED <<th, heap, mem, registry, holder, poisoned, held, freed, nstale, c, call, shown>>

\* the owner of a live block writes a byte through its handle
CallerWrite(t, p, i, b) ==
    /\ th[t].pc = "idle"
    /\ p \in held[t]
    /\ i \in 1..heap[p].size
    /\ mem[p][i] # b
    /\ mem' = [mem EXCEPT ![p][i] = b]
    /\ UNCHANGED <<th, heap, registry, holder, poisoned, held, freed, crashed, nstale, c, call, shown>>

\* ------------------------------------------------------- specifications

\* the allocator's own steps
AllocatorStep(t) ==
    \/ \E sz \in SizeArgs : AllocateCall(t, sz)
    \/ SysAlloc(t)
    \/ AllocZero(t)
    \/ HelperLock(t)
    \/ HelperCrit(t)
    \/ AllocFinish(t)
    \/ \E p \in Addr \cup {Null}, sz \in SizeArgs : DeallocateCall(t, p, sz)
    \/ DeallocZero(t)
    \/ DeallocFinish(t)

\* the allocator, used by callers that free only what they hold and write
\* only to what they hold; a holder of the registry lock may panic
Next ==
    \E t \in Threads :
        \/ AllocatorStep(t)
        \/ HelperPanic(t)
        \/ \E p \in Addr, i \in 1..MaxSize, b \in Byte : CallerWrite(t, p, i, b)

Spec == Init /\ [][Next]_vars

\* the allocator, used by callers that may also pass a stale handle
NextStale ==
    /\ ~crashed
    /\ \E t \in Threads :
        \/ AllocatorStep(t)
        \/ \E p \in Addr, sz \in 0..MaxSize : DeallocateStaleCall(t, p, sz)
        \/ DeallocAbort(t)

SpecStale == Init /\ [][NextStale]_vars

\* the two registry helpers, called directly
NextRegistry ==
    \E t \in Threads :
        \/ \E p \in Addr : RegisterCall(t, p)
        \/ \E p \in Addr : DeregisterCall(t, p)
        \/ HelperLock(t)
        \/ HelperCrit(t)
        \/ HelperPanic(t)
        \/ HelperReturn(t)

SpecRegistry == Init /\ [][NextRegistry]_vars

\* the containers and handle_sensitive_data
NextContainer ==
    \/ \E kind \in {"SecureString", "SecureBytes"}, sensitive \in BOOLEAN,
          buf \in Buffers, len \in 0..MaxCap : New(kind, sensitive, buf, len)
    \/ ClearCall
    \/ DropCall
    \/ ClearZero
    \/ ClearTruncate
    \/ Release
    \/ Forget
    \/ \E i \in 1..MaxCap, b \in Byte : DerefMutWrite(i, b)
    \/ \E buf \in Buffers, len \in 0..MaxCap : HandleSensitiveData(buf, len)
    \/ HsdValidate
    \/ HsdClear
    \/ HsdReturn

SpecContainer == Init /\ [][NextContainer]_vars

\* two containers and their text renderings
NextRender ==
    \E i \in Slots, sensitive \in BOOLEAN :
        \/ \E data \in Texts : FmtDisplayString(i, sensitive, data)
        \/ \E data \in Texts : FmtDebugString(i, sensitive, data)
        \/ \E data \in ByteVecs : FmtDebugBytes(i, sensitive, data)

SpecRender == Init /\ [][NextRender]_vars

\* the BoundaryValidator functions and validate_and_process_path
NextBoundary ==
    \/ \E input \in StringInputs : ValidateStringCall(input)
    \/ \E path \in PathInputs : ValidatePathCall(path)
    \/ \E path \in PathInputs : SanitizePathCall(path)
    \/ \E input \in SanitizeInputs : SanitizeStringCall(input)
    \/ \E path \in PathInputs : ValidateAndProcessPath(path)
    \/ Discard

SpecBoundary == Init /\ [][NextBoundary]_vars

\* ---------------------------------------------------------------- claims

InCall(t) == th[t].pc \notin {"idle", "panicked"}
Quiescent == \A t \in Threads : ~InCall(t)
LiveHandles == UNION {held[t] : t \in Threads}
HelperDone(t) == th[t].pc \in {"a_after", "d_after", "h_ret"}
Others(reg, p) == SelectSeq(reg, LAMBDA q : q # p)

\* C1: once every call has ended, the registry holds exactly the addresses
\* that a successful allocate returned and that no successful deallocate
\* has been given since.
C1_RegistryExact == Quiescent => Elems(registry) = LiveHandles

ContainerData(k) == <<k.sensitive, k.len, k.cap, k.buf>>
BufAllZero(k) == \A i \in 1..k.cap : k.buf[i] = 0

\* C2: when a sensitive container is about to have its length reset, when
\* its storage is about to be released, once it was released and whenever a
\* clear has completed, every byte of its buffer up to the capacity is zero.
C2_ZeroedBeforeEmptied ==
    (c.st # "none" /\ c.sensitive) =>
        ((c.pc \in {"clr_trunc", "free"} \/ c.st = "dropped" \/ c.nclear > 0)
            => BufAllZero(c))

\* the early return of handle_sensitive_data has dropped a container whose
\* spare capacity was not zero
C2_Witness ==
    /\ c.st = "dropped" /\ c.hsd = "Err" /\ c.sensitive
    /\ c.dirty /\ c.len0 > 0 /\ c.cap = MaxCap

\* C10: once a clear has completed the container has length 0, is empty and
\* its view is empty; and no step of a later clear or of the drop changes
\* the sensitive flag, the length, the capacity or the buffer.
C10_ClearEmptiesIdempotent ==
    [][/\ (c'.st # "none" /\ c'.nclear > 0) =>
            /\ ContainerLen(c') = 0
            /\ ContainerIsEmpty(c')
            /\ ContainerView(c') = <<>>
       /\ (c.st = "alive" /\ c.nclear > 0 /\ c'.st # "none") =>
            ContainerData(c') = ContainerData(c)]_vars

\* a non-sensitive container that held data was cleared and then dropped
C10_Witness ==
    /\ c.st = "dropped" /\ c.nclear = 2 /\ ~c.sensitive
    /\ c.len0 = MaxCap /\ c.kind = "SecureBytes"

\* C3: in allocate the block is zeroed before it is registered, and when
\* allocate is about to return Ok(ptr) all size bytes of the block are zero
\* and ptr is in the registry.
C3_AllocateZeroedAndRegistered ==
    \A t \in Threads :
        th[t].op = "allocate" =>
            /\ th[t].pc \in {"h_lock", "h_crit", "a_after"} =>
                    AllZero(mem[th[t].ptr], th[t].size)
            /\ (th[t].pc = "a_after" /\ th[t].hres = "Ok") =>
                    /\ th[t].ptr \in Elems(registry)
                    /\ heap[th[t].ptr] = [live |-> TRUE, size |-> th[t].size]

C3_Witness ==
    \E t \in Threads :
        /\ th[t].op = "allocate" /\ th[t].pc = "a_after" /\ th[t].hres = "Ok"
        /\ th[t].size = MaxSize

\* C4: deallocate of a live handle zeroes the block, then attempts the
\* deregistration, then releases the block: from the deregistration attempt
\* until the release the block is all zero and still allocated, and the
\* release comes only after the attempt has returned.
C4_DeallocateOrder ==
    \A t \in Threads :
        (th[t].op = "deallocate" /\ th[t].pc \in {"h_lock", "h_crit", "d_after"}) =>
            /\ AllZero(mem[th[t].ptr], th[t].size)
            /\ heap[th[t].ptr].live
            /\ th[t].pc = "d_after" <=> th[t].hres \in {"Ok", "LockFailed"}

C4_Witness ==
    \E t \in Threads :
        /\ th[t].op = "deallocate" /\ th[t].pc = "d_after"
        /\ th[t].size = MaxSize

\* C5: deallocate given a null handle or a handle that an earlier deallocate
\* already freed returns InvalidAccess at once: it never goes on to write,
\* deregister or release.
C5_NullOrFreedRejected ==
    \A t \in Threads :
        (th[t].op = "deallocate" /\ th[t].arg \in {"null", "freed"}) =>
            th[t].pc = "idle" /\ th[t].res = "InvalidAccess"

\* every allocated block that is missing from the registry belongs to a call
\* that has not returned
LeakFree ==
    \A a \in Addr :
        (heap[a].live /\ a \notin Elems(registry)) =>
            \E u \in Threads : th[u].pc # "idle" /\ th[u].ptr = a

\* C6: an allocate that returns an error has not touched the registry and
\* leaves no allocated block behind: with no block it returns
\* AllocationFailed, and with a block whose registration failed it releases
\* the block and returns LockFailed.
C6_FailedAllocateLeaksNothing ==
    [][\A t \in Threads :
        (th'[t] # th[t] /\ th'[t].pc = "idle" /\ th'[t].op = "allocate"
            /\ th'[t].res # "Ok") =>
            /\ registry' = registry
            /\ th[t].wrote = 0
            /\ th[t].ptr = Null => th'[t].res = "AllocationFailed"
            /\ th[t].ptr # Null =>
                    /\ th'[t].res = "LockFailed"
                    /\ heap[th[t].ptr].live
                    /\ ~heap'[th[t].ptr].live
            /\ LeakFree']_vars

C6_Witness ==
    \E t \in Threads :
        th[t].op = "allocate" /\ th[t].pc = "idle" /\ th[t].res = "LockFailed"

\* C7: a deallocate (non-null handle, valid size) whose deregistration could
\* not take the lock still releases the zeroed block and returns Ok.
C7_DeregisterFailureSuppressed ==
    [][\A t \in Threads :
        (th[t].pc = "d_after" /\ th[t].hres = "LockFailed" /\ th'[t] # th[t]) =>
            /\ th'[t].pc = "idle"
            /\ th'[t].res = "Ok"
            /\ ~heap'[th[t].ptr].live
            /\ AllZero(mem'[th[t].ptr], th[t].size)]_vars

C7_Witness ==
    \E t \in Threads :
        /\ th[t].op = "deallocate" /\ th[t].pc = "idle"
        /\ th[t].hres = "LockFailed" /\ th[t].res = "Ok"

\* C8 as stated: a helper call that found the lock held by another thread
\* completes with LockFailed.
C8_ContendedCallFails ==
    \A t \in Threads :
        (th[t].cont /\ th[t].hres # "none") => th[t].hres = "LockFailed"

\* C8 as amended: a helper call that finds the lock held waits for it; the
\* holder is always in its one-step critical section, so the lock is given
\* back; the call enters only an unpoisoned lock, and LockFailed is returned
\* only when the Mutex is poisoned.
C8_LockFailedOnlyWhenPoisoned ==
    /\ \A t \in Threads :
        /\ th[t].hres = "LockFailed" => poisoned
        /\ th[t].pc = "h_crit" => (holder = t /\ ~poisoned)
        /\ (th[t].cont /\ HelperDone(t) /\ ~poisoned) => th[t].hres = "Ok"
    /\ holder # NoThread => th[holder].pc = "h_crit"

C8_Witness ==
    \E t \in Threads : th[t].cont /\ th[t].pc = "h_ret" /\ th[t].hres = "Ok"

\* C9: a deregister that takes the lock returns Ok, leaves no entry for its
\* address however often it was registered, leaves every other entry in
\* place and in order, changes nothing when the address was absent, and a
\* second deregister of the same address would change nothing.
C9_RemovalIdempotent ==
    [][\A t \in Threads :
        (th[t].pc = "h_crit" /\ th[t].op = "deregister" /\ th'[t].pc = "h_ret") =>
            /\ th'[t].hres = "Ok"
            /\ Count(registry', th[t].ptr) = 0
            /\ Others(registry', th[t].ptr) = Others(registry, th[t].ptr)
            /\ th[t].ptr \notin Elems(registry) => registry' = registry
            /\ Retain(registry', th[t].ptr) = registry']_vars

C9_Witness ==
    \E t \in Threads :
        /\ th[t].op = "deregister" /\ th[t].pc = "h_ret"
        /\ th[t].wrote = 2 /\ Len(registry) = 1

\* C11: a rendering of a sensitive container shows a redaction marker and
\* does not contain the value, two sensitive containers of one type render
\* alike under one format whatever they hold, and Display of a
\* non-sensitive container is its literal value.
C11_RenderingHidesValue ==
    /\ \A i \in Slots :
        /\ (shown[i].fmt # "none" /\ shown[i].sensitive) =>
                /\ Contains(shown[i].out, <<82, 69, 68, 65, 67, 84, 69, 68>>)
                /\ (shown[i].kind = "SecureString" /\ shown[i].data # <<>>) =>
                        ~Contains(shown[i].out, shown[i].data)
        /\ (shown[i].fmt = "Display" /\ ~shown[i].sensitive) => shown[i].out = shown[i].data
    /\ \A i, j \in Slots :
        (/\ shown[i].fmt # "none" /\ shown[i].fmt = shown[j].fmt /\ shown[i].kind = shown[j].kind
         /\ shown[i].sensitive /\ shown[j].sensitive) => shown[i].out = shown[j].out

\* the Unicode case folding of a character
CaseFold(ch) ==
    IF ch >= 65 /\ ch <= 90 THEN ch + 32
    ELSE IF ch = LongS THEN 115
    ELSE IF ch = KelvinSign THEN 107 ELSE ch

\* str has the characters of pat, in order and next to each other, from
\* position i + 1 on, when both are read through f
MatchAt(str, pat, i, f(_)) == \A j \in 1..Len(pat) : f(str[i + j]) = f(pat[j])
ContainsVia(str, pat, f(_)) ==
    \E i \in 0..(Len(str) - Len(pat)) : MatchAt(str, pat, i, f)
HasMarker(str, f(_), g(_)) ==
    \/ \E k \in 1..Len(InjectionPatterns) : ContainsVia(str, InjectionPatterns[k], f)
    \/ \E k \in 1..Len(SqlPatterns) : ContainsVia(str, SqlPatterns[k], g)
    \/ \E i \in 1..Len(str) : str[i] = 0
IsAscii(str) == \A i \in 1..Len(str) : str[i] < 128

\* C12 as stated: validate_string returns false exactly for the inputs
\* that contain, letter case ignored, one of the sixteen markers, or that
\* contain a null byte.
C12_RejectsIffMarkerAnyCase ==
    call.fn = "validate_string" =>
        (call.ok = FALSE <=> HasMarker(call.input, CaseFold, CaseFold))

\* C12 as amended: for an ASCII input validate_string returns false exactly
\* when the input contains a marker, ASCII letter case ignored, or a null
\* byte; for any input, exactly when the lowercased input contains an
\* injection marker, the uppercased input an uppercased SQL marker, or the
\* input a null byte.  Of the tests' strings the accepted ones are those
\* that begin with H, 1, u or t (Hello, world!, 12345, user@example.com,
\* test@example.com).
C12_RejectsIffMarkerAsciiCase ==
    call.fn = "validate_string" =>
        /\ IsAscii(call.input) =>
                (call.ok = FALSE <=> HasMarker(call.input, CaseFold, CaseFold))
        /\ call.ok = FALSE <=> HasMarker(call.input, LowerChar, UpperChar)
        /\ call.input \in StringSamples =>
                (call.ok <=> call.input[1] \in {72, 49, 117, 116})

\* a marker in another letter case inside other text was rejected
C12_Witness ==
    /\ call.fn = "validate_string" /\ ~call.ok
    /\ IsAscii(call.input)
    /\ Len(call.input) = 11 + 2 * MaxPad
    /\ SubSeq(call.input, 1 + MaxPad, 4 + MaxPad) = <<106, 65, 118, 65>>

Same(ch) == ch

\* the markers the claim lists for validate_path
ListedPathMarkers == {
    <<46, 46>>,                                      \* ..
    <<126>>,                                         \* ~
    <<47, 101, 116, 99, 47>>,                        \* /etc/
    <<47, 100, 101, 118, 47>>,                       \* /dev/
    <<47, 112, 114, 111, 99, 47>>,                   \* /proc/
    <<47, 115, 121, 115, 47>>,                       \* /sys/
    <<47, 118, 97, 114, 47, 108, 111, 103, 47>>,     \* /var/log/
    <<47, 114, 111, 111, 116, 47>>,                  \* /root/
    <<47, 104, 111, 109, 101, 47>>,                  \* /home/
    <<67, 58, 92, 87, 105, 110, 100, 111, 119, 115, 92>>   \* C:\Windows\
    }
HasPathMarker(path) == \E m \in ListedPathMarkers : ContainsVia(path, m, Same)

\* C13: validate_path returns false exactly for the paths that contain
\* "..", "~" or one of the listed prefixes, in the letter case listed; of
\* the tests' paths it rejects ../../../etc/passwd and /etc/shadow and
\* accepts the two that begin with d or i (documents/myfile.txt,
\* images/photo.jpg).
C13_PathRejectedIffMarker ==
    call.fn = "validate_path" =>
        /\ call.ok = FALSE <=> HasPathMarker(call.input)
        /\ call.input \in PathSamples =>
                (call.ok <=> call.input[1] \in {100, 105})

\* a listed prefix in the middle of a path was rejected
C13_Witness ==
    /\ call.fn = "validate_path" /\ ~call.ok
    /\ call.input = <<97>> \o <<47, 112, 114, 111, 99, 47>> \o <<97>>

\* C14: the path sanitize_path returns contains no "..", no "~" and no
\* backslash and does not begin with "/", and sanitize_path of
\* ../../../etc/passwd is etc/passwd.
C14_SanitizedPathClean ==
    call.fn = "sanitize_path" =>
        /\ ~ContainsVia(call.out, <<46, 46>>, Same)
        /\ ~ContainsVia(call.out, <<126>>, Same)
        /\ ~ContainsVia(call.out, <<92>>, Same)
        /\ call.out # <<>> => call.out[1] # 47
        /\ call.input = <<46, 46, 47, 46, 46, 47, 46, 46, 47, 101, 116, 99, 47,
                          112, 97, 115, 115, 119, 100>>
                => call.out = <<101, 116, 99, 47, 112, 97, 115, 115, 119, 100>>

\* what the claim says one character becomes
Rewritten(ch) ==
    CASE ch = 38 -> <<38, 97, 109, 112, 59>>            \* &amp;
      [] ch = 60 -> <<38, 108, 116, 59>>               \* &lt;
      [] ch = 62 -> <<38, 103, 116, 59>>               \* &gt;
      [] ch = 34 -> <<38, 113, 117, 111, 116, 59>>     \* &quot;
      [] ch = 39 -> <<38, 35, 51, 57, 59>>            \* &#39;
      [] ch = 0  -> <<>>
      [] OTHER   -> <<ch>>
RECURSIVE RewriteEach(_)
RewriteEach(str) ==
    IF str = <<>> THEN <<>> ELSE Rewritten(Head(str)) \o RewriteEach(Tail(str))

\* C15: sanitize_string returns the input rewritten character by character
\* (& < > " ' to their entities, null bytes dropped, the rest kept in
\* order), so no ampersand of an entity is escaped again; the output has no
\* raw < > " ' or null byte; <script>alert(1)</script> becomes
\* &lt;script&gt;alert(1)&lt;/script&gt;.
C15_SanitizeStringRewrites ==
    call.fn = "sanitize_string" =>
        /\ call.out = RewriteEach(call.input)
        /\ \A i \in 1..Len(call.out) : call.out[i] \notin {60, 62, 34, 39, 0}
        /\ call.input = <<60, 115, 99, 114, 105, 112, 116, 62, 97, 108, 101, 114, 116, 40, 49, 41, 60, 47, 115, 99, 114, 105, 112, 116, 62>>
                => call.out = <<38, 108, 116, 59, 115, 99, 114, 105, 112, 116, 38, 103, 116, 59, 97, 108, 101, 114, 116, 40, 49, 41, 38, 108, 116, 59, 47, 115, 99, 114, 105, 112, 116, 38, 103, 116, 59>>

\* a string with <, & and a null byte was sanitized
C15_Witness ==
    /\ call.fn = "sanitize_string"
    /\ call.input = <<60, 38, 0>>
    /\ call.out = <<38, 108, 116, 59, 38, 97, 109, 112, 59>>

\* the sanitized path inside an Ok result of validate_and_process_path
ReportedPath(out) == SubSeq(out, Len(ProcessedPathPrefix) + 1, Len(out))

\* C16: the sanitized path an Ok result of validate_and_process_path
\* reports contains none of the markers validate_path rejects.
C16_ReportedPathAccepted ==
    (call.fn = "validate_and_process_path" /\ call.ok) =>
        ~HasPathMarker(ReportedPath(call.out))

=============================================================================
